---- MODULE Spec2Model ----
(***************************************************************************)
(* The useChat hook of src/hooks/useChat.ts as a state machine: the React  *)
(* state (messages, sessions, currentSessionId, isLoading, currentModel),  *)
(* the two refs (chatSessionRef, abortControllerRef), localStorage, the    *)
(* userEmail prop, the clock read by Date.now(), and the asynchronous      *)
(* turns started by sendMessage.  One action is one event handler or one   *)
(* resumption of an async function, followed by the render it causes and   *)
(* the effects of that render (load, persist, sync, Initialize Chat).      *)
(*                                                                         *)
(* Strings are TLA+ strings; null / undefined is the string Null for ids   *)
(* and identities, FALSE for the optional isError, and a record with       *)
(* present = FALSE for the optional attachment.  Attachments are compared  *)
(* by value: every comparison the code makes by reference (the sync        *)
(* effect's dirty check) is between a stored message and the live message  *)
(* it was copied from, whose attachment object is shared.                  *)
(***************************************************************************)
EXTENDS Integers, Sequences, FiniteSets, TLC

VARIABLES
  userEmail,           \* the hook's prop: an identity or Null
  storage,             \* localStorage: identity -> stored item
  messages,            \* useState<Message[]>
  sessions,            \* useState<ChatSession[]>
  currentSessionId,    \* useState<string | null>
  isLoading,           \* useState(false)
  currentModel,        \* useState<ModelId>
  chatSessionRef,      \* useRef<Chat | null>
  abortControllerRef,  \* useRef<AbortController | null>: 0 or a turn number
  turns,               \* the calls of sendMessage, in order of their start
  now,                 \* the value Date.now() returns
  crashed,             \* a state updater threw: React unmounted the tree
  queued,              \* the state updates the load effect queued for the next render
  ops,                 \* the session operations the user has made: how many,
                       \* and the last one with its argument
  camera,              \* ChatInput: isCameraOpen, facingMode, streamRef, the runs
                       \* of the camera effect and the streams acquired
  voice                \* ChatInput: isRecording, isTranscribing, the recorder
                       \* and the position of the recording handlers

vars == <<userEmail, storage, messages, sessions, currentSessionId, isLoading,
          currentModel, chatSessionRef, abortControllerRef, turns, now, crashed,
          queued, ops, camera, voice>>

(* the state of the hook *)
hookVars == <<userEmail, storage, messages, sessions, currentSessionId, isLoading,
              currentModel, chatSessionRef, abortControllerRef, turns, now, crashed,
              queued, ops>>

----------------------------------------------------------------------------
(* Bounds of the model *)

MaxTurns == 2
OneTurn == 1
MaxChunks == 2
MaxOps == 3
FewOps == 2
MaxStored == 2
MaxAcquisitions == 3
MaxRecordings == 2

----------------------------------------------------------------------------
(* Values.  The user-facing literals are written without their diacritics
   (SANY reads ASCII only); each keeps its length. *)

Null == "null"

Identities == {"a@kite", "b@kite"}

Models == {"gemini-3-flash-preview", "gemini-3-pro-preview"}

SenderUser == "user"
SenderModel == "model"

DefaultTitle == "Cuoc tro chuyen moi"
TitleMax == 30
Ellipsis == "..."

DrawingCaption == "Dang ve hinh..."
AutoImageCaption == "Dang tao hinh anh tu dong..."
ImageDoneCaption == "Day la hinh anh minh vua tao theo yeu cau cua ban:"
ImageFailedCaption == "Xin loi, minh khong the tao hinh anh luc nay."
QuotaMessage == "He thong dang ban hoac da het han muc su dung mien phi (429 Resource Exhausted). Vui long thu lai sau it phut."
GenericMessage == "Xin loi, da co loi xay ra. Vui long thu lai."

NoAttachment == [present |-> FALSE, mimeType |-> "", data |-> ""]
UserImage == [present |-> TRUE, mimeType |-> "image/png", data |-> "UP"]
GeneratedImage == [present |-> TRUE, mimeType |-> "image/png", data |-> "GEN"]

Whitespace == {" ", "\t", "\n"}

Min(a, b) == IF a < b THEN a ELSE b

(* String.prototype.slice(0, n) *)
Slice(t, n) == SubSeq(t, 1, Min(n, Len(t)))

RECURSIVE TrimLeft(_)
TrimLeft(t) ==
  IF Len(t) > 0 /\ SubSeq(t, 1, 1) \in Whitespace
    THEN TrimLeft(SubSeq(t, 2, Len(t)))
    ELSE t

RECURSIVE TrimRight(_)
TrimRight(t) ==
  IF Len(t) > 0 /\ SubSeq(t, Len(t), Len(t)) \in Whitespace
    THEN TrimRight(SubSeq(t, 1, Len(t) - 1))
    ELSE t

(* String.prototype.trim() *)
Trim(t) == TrimRight(TrimLeft(t))

(* !text.trim() *)
IsBlank(t) == Trim(t) = ""

(* A Message of src/hooks/useChat.ts:414-421.  timestamp is the epoch value
   of its Date. *)
Message(id, sender, text, attachment, isError, timestamp) ==
  [id |-> id, sender |-> sender, text |-> text, attachment |-> attachment,
   isError |-> isError, timestamp |-> timestamp]

(* A ChatSession of src/hooks/useChat.ts:428-433 *)
ChatSession(id, title, msgs, updatedAt) ==
  [id |-> id, title |-> title, messages |-> msgs, updatedAt |-> updatedAt]

Last(s) == s[Len(s)]

RECURSIVE SelectIndex(_, _, _)
(* Array.prototype.findIndex on session ids: 0 stands for -1 *)
SelectIndex(s, id, i) ==
  IF i > Len(s) THEN 0
  ELSE IF s[i].id = id THEN i
  ELSE SelectIndex(s, id, i + 1)

FindIndex(s, id) == SelectIndex(s, id, 1)

(* messages.find(m => m.sender === Sender.User): the sequence of the user
   messages, whose head is the one found *)
UserMessages(msgs) == SelectSeq(msgs, LAMBDA m : m.sender = SenderUser)

----------------------------------------------------------------------------
(* Array.prototype.sort((a, b) => b.updatedAt - a.updatedAt): stable, newest
   first *)

RECURSIVE InsertDesc(_, _)
InsertDesc(sorted, x) ==
  IF sorted = <<>> THEN <<x>>
  ELSE IF Last(sorted).updatedAt >= x.updatedAt THEN Append(sorted, x)
  ELSE Append(InsertDesc(SubSeq(sorted, 1, Len(sorted) - 1), x), Last(sorted))

RECURSIVE SortFrom(_, _, _)
SortFrom(s, i, acc) ==
  IF i > Len(s) THEN acc ELSE SortFrom(s, i + 1, InsertDesc(acc, s[i]))

(* no sort at all *)
Unsorted(s) == s

SortByUpdatedAt(s) == SortFrom(s, 1, <<>>)

----------------------------------------------------------------------------
(* Titles *)

(* sendMessage, the new session's title: text.slice(0, 30) || default *)
CreateTitle(text) ==
  IF Slice(text, TitleMax) = "" THEN DefaultTitle ELSE Slice(text, TitleMax)

(* a title that follows the conversation: derived at every sync, from the
   latest user message *)
SyncTitleFromLatest(title, msgs) ==
  IF Len(msgs) > 0 /\ UserMessages(msgs) # <<>>
    THEN LET text == Last(UserMessages(msgs)).text
         IN  Slice(text, TitleMax) \o (IF Len(text) > TitleMax THEN Ellipsis ELSE "")
    ELSE title

(* the sync effect's title: derived from the first user message while the
   title is the default one *)
SyncTitle(title, msgs) ==
  IF title = DefaultTitle /\ Len(msgs) > 0 /\ UserMessages(msgs) # <<>>
    THEN LET text == Head(UserMessages(msgs)).text
         IN  Slice(text, TitleMax) \o (IF Len(text) > TitleMax THEN Ellipsis ELSE "")
    ELSE title

----------------------------------------------------------------------------
(* The sync effect's updater: setSessions(prev => ...) *)

SameLast(stored, live) ==
  /\ Len(stored) = Len(live)
  /\ Len(stored) > 0
  /\ Last(stored).id = Last(live).id
  /\ Last(stored).text = Last(live).text
  /\ Last(stored).isError = Last(live).isError
  /\ Last(stored).attachment = Last(live).attachment

(* the updater without the comparison of lines 105-113 *)
SyncUpdaterUnchecked(prev, sid, msgs, time) ==
  LET i == FindIndex(prev, sid) IN
  IF i = 0 THEN prev
  ELSE SortByUpdatedAt(
         [prev EXCEPT ![i] = ChatSession(prev[i].id, SyncTitle(prev[i].title, msgs),
                                         msgs, time)])

SyncUpdater(prev, sid, msgs, time) ==
  LET i == FindIndex(prev, sid) IN
  IF i = 0 THEN prev
  ELSE IF SameLast(prev[i].messages, msgs) THEN prev
  ELSE SortByUpdatedAt(
         [prev EXCEPT ![i] = ChatSession(prev[i].id, SyncTitle(prev[i].title, msgs),
                                         msgs, time)])

(* the sync effect: runs with the render's messages and currentSessionId *)
SyncEffect(prev, sid, msgs, time) ==
  IF sid # Null /\ Len(msgs) > 0 THEN SyncUpdater(prev, sid, msgs, time) ELSE prev

----------------------------------------------------------------------------
(* The Initialize Chat effect: the history handed to createChatSession *)

Parts(attachment, text) ==
  (IF attachment.present
     THEN <<[inlineData |-> [mimeType |-> attachment.mimeType, data |-> attachment.data]]>>
     ELSE <<>>)
  \o (IF text # "" THEN <<[text |-> text]>> ELSE <<>>)

(* the filter of line 172 without its test of isError *)
RetainedWithErrors(m) == Trim(m.text) # "" \/ m.attachment.present

Retained(m) == ~m.isError /\ (Trim(m.text) # "" \/ m.attachment.present)

Content(m) ==
  [role |-> IF m.sender = SenderUser THEN "user" ELSE "model",
   parts |-> Parts(m.attachment, m.text)]

History(msgs) ==
  LET kept == SelectSeq(msgs, Retained)
  IN  [i \in 1..Len(kept) |-> Content(kept[i])]

(* services/gemini createChatSession(model, history?) and the Chat it
   returns; NoChat is chatSessionRef.current = null *)
NoChat == [exists |-> FALSE, model |-> "", history |-> <<>>]
createChatSession(model, history) ==
  [exists |-> TRUE, model |-> model, history |-> history]

----------------------------------------------------------------------------
(* localStorage items.  JSON.stringify(sessions) writes updatedAt as a number
   and each message's Date as an ISO string; the load effect maps the string
   back to a Date. *)

Absent == [tag |-> "absent"]
Unparseable == [tag |-> "text", parses |-> FALSE]
JsonText(val) == [tag |-> "text", parses |-> TRUE, val |-> val]
JsonObject == [type |-> "object"]
JsonArray(items) == [type |-> "array", items |-> items]

IsoString(t) == [iso |-> t]
DateOf(str) == str.iso

StringifyMessage(m) == [m EXCEPT !.timestamp = IsoString(m.timestamp)]
ReviveMessage(j) == [j EXCEPT !.timestamp = DateOf(j.timestamp)]

StringifySession(s) ==
  [s EXCEPT !.messages = [i \in 1..Len(s.messages) |-> StringifyMessage(s.messages[i])]]
ReviveSession(j) ==
  [j EXCEPT !.messages = [i \in 1..Len(j.messages) |-> ReviveMessage(j.messages[i])]]

Stringify(s) == JsonText(JsonArray([i \in 1..Len(s) |-> StringifySession(s[i])]))

(* the try block of the load effect: does JSON.parse(stored).map(...) throw? *)
ParseThrows(stored) ==
  \/ ~stored.parses
  \/ stored.val.type # "array"
  \/ \E i \in 1..Len(stored.val.items) : "messages" \notin DOMAIN stored.val.items[i]

ParsedSessions(stored) ==
  SortByUpdatedAt([i \in 1..Len(stored.val.items) |-> ReviveSession(stored.val.items[i])])

----------------------------------------------------------------------------
(* getFriendlyErrorMessage: a failure is modelled by what the function reads
   of it, its status, its code and the text of JSON.stringify(error) *)

Mentions(payload, word) ==
  \E i \in 1..Len(payload) :
    i + Len(word) - 1 <= Len(payload) /\ SubSeq(payload, i, i + Len(word) - 1) = word

getFriendlyErrorMessage(error) ==
  IF \/ error.status = 429
     \/ error.code = 429
     \/ Mentions(error.payload, "429")
     \/ Mentions(error.payload, "RESOURCE_EXHAUSTED")
     \/ Mentions(error.payload, "quota")
    THEN QuotaMessage
    ELSE GenericMessage

----------------------------------------------------------------------------
(* Inputs of the environment *)

SendInputs ==
  { [text |-> "Hello", attachment |-> NoAttachment, isImageGen |-> FALSE],
    [text |-> "", attachment |-> UserImage, isImageGen |-> FALSE],
    [text |-> "Draw", attachment |-> NoAttachment, isImageGen |-> TRUE] }

ChunkTexts == {"", "x", "y"}

(* args.prompt of a generate_image call; "" is an absent prompt *)
ToolPrompts == {"", "cat"}

(* the generate_image calls of a chunk: FunctionCall.args is optional, and
   so is the prompt it holds *)
ToolCalls ==
  {[args |-> FALSE, prompt |-> ""]} \cup {[args |-> TRUE, prompt |-> p] : p \in ToolPrompts}

(* what reading .prompt of an undefined args throws *)
ArgsTypeError == [name |-> "TypeError", status |-> 0, code |-> 0, payload |-> "{}"]

Failures ==
  { [name |-> "Error", status |-> 429, code |-> 0, payload |-> "{status:429}"],
    [name |-> "Error", status |-> 500, code |-> 0, payload |-> "{status:500}"] }

(* failures of every class getFriendlyErrorMessage tells apart, and one
   named AbortError, which the catch block of sendMessage takes for a
   cancellation *)
FailureCases ==
  { [name |-> "ApiError", status |-> 429, code |-> 0, payload |-> "{}"],
    [name |-> "ApiError", status |-> 0, code |-> 429, payload |-> "{}"],
    [name |-> "Error", status |-> 0, code |-> 0, payload |-> "{error:got 429}"],
    [name |-> "Error", status |-> 0, code |-> 0,
     payload |-> "{error:RESOURCE_EXHAUSTED}"],
    [name |-> "Error", status |-> 0, code |-> 0, payload |-> "{error:quota}"],
    [name |-> "ApiError", status |-> 500, code |-> 500, payload |-> "{status:500}"],
    [name |-> "TypeError", status |-> 0, code |-> 0, payload |-> "{}"],
    [name |-> "AbortError", status |-> 0, code |-> 0, payload |-> "{}"] }

(* what generateImage resolves to: an inlineData part or none, and the text
   of its text parts *)
ImageResponses ==
  { [hasImage |-> TRUE, text |-> ""],
    [hasImage |-> TRUE, text |-> "A cat"],
    [hasImage |-> FALSE, text |-> ""] }

(* what the store holds under each identity before the first login *)
StoredSession ==
  ChatSession("1", "Hi",
              << Message("1", SenderUser, "Hi", NoAttachment, FALSE, 1),
                 Message("2", SenderModel, "Yo", NoAttachment, FALSE, 1) >>, 2)

OlderSession ==
  ChatSession("2", "Old",
              << Message("1", SenderUser, "Old", NoAttachment, FALSE, 0),
                 Message("2", SenderModel, "Days", NoAttachment, FALSE, 0) >>, 1)

OtherSession ==
  ChatSession("0", "Yo",
              << Message("0", SenderUser, "Yo", NoAttachment, FALSE, 0) >>, 1)

InitialStores ==
  { [e \in Identities |->
       IF e = "a@kite" THEN Stringify(<<StoredSession>>) ELSE other] :
    other \in { Absent, Unparseable, JsonText(JsonObject),
                JsonText(JsonArray(<<[id |-> "9"]>>)),
                Stringify(<<OtherSession>>) } }

(* Date.now() at mount; `now` is the time of the next send, which is
   SendGap ms after the previous one at least.  An event that follows a send
   reads the clock at any time from that send on: in the same millisecond,
   one later, or SendGap later *)
FirstClock == 3
SendGap == 2

----------------------------------------------------------------------------
(* Turns: one record per call of sendMessage that passed its first line *)

(* the state updates the load effect has called and React has not rendered
   yet; kind is the branch of the effect that called them *)
NoQueue == [some |-> FALSE, kind |-> "none", setSessions |-> FALSE, sessions |-> <<>>]

(* a Chat object is no longer the one chatSessionRef holds *)
Detach(trs) == [i \in 1..Len(trs) |-> [trs[i] EXCEPT !.onCtx = FALSE]]

(* a finally block that clears the flag whichever controller is active *)
FinallyLoadingUnchecked(t) == FALSE

(* the finally block of sendMessage *)
FinallyRef(t) == IF abortControllerRef = t THEN 0 ELSE abortControllerRef
FinallyLoading(t) == IF abortControllerRef = t THEN FALSE ELSE isLoading

(* the text the chunks delivered so far contribute *)
RECURSIVE Concat(_)
Concat(texts) == IF texts = <<>> THEN "" ELSE Head(texts) \o Concat(Tail(texts))

----------------------------------------------------------------------------
(* A render and its effects, after a handler left the state at
   (m, s, c, mdl, ref, trs): the persist effect, the sync effect and its
   second render, the Initialize Chat effect *)

(* a render whose persist effect does not run *)
CommitWithoutPersist(m, s, c, mdl, ref, trs) ==
  LET synced == IF m # messages \/ c # currentSessionId
                  THEN SyncEffect(s, c, m, now) ELSE s
      init == mdl # currentModel \/ c # currentSessionId
  IN  /\ messages' = m
      /\ sessions' = synced
      /\ currentSessionId' = c
      /\ currentModel' = mdl
      /\ chatSessionRef' = IF init THEN createChatSession(mdl, History(m)) ELSE ref
      /\ turns' = IF init THEN Detach(trs) ELSE trs
      /\ storage' = storage

Commit(m, s, c, mdl, ref, trs) ==
  LET synced == IF m # messages \/ c # currentSessionId
                  THEN SyncEffect(s, c, m, now) ELSE s
      init == mdl # currentModel \/ c # currentSessionId
  IN  /\ messages' = m
      /\ sessions' = synced
      /\ currentSessionId' = c
      /\ currentModel' = mdl
      /\ chatSessionRef' = IF init THEN createChatSession(mdl, History(m)) ELSE ref
      /\ turns' = IF init THEN Detach(trs) ELSE trs
      /\ storage' = IF userEmail # Null /\ (s # sessions \/ synced # s)
                      THEN [storage EXCEPT ![userEmail] = Stringify(synced)]
                      ELSE storage

----------------------------------------------------------------------------
(* ChatInput, the camera: isCameraOpen, facingMode, streamRef and the effect
   of lines 63-109.  `runs` holds the runs of the effect that called
   getUserMedia, each with its local `mounted` and whether its request is
   still pending; `streams` holds, for each MediaStream acquired, whether
   its tracks are live; streamRef is 0 or the number of a stream.
   `mounted` is whether the component itself is mounted. *)

NoCamera ==
  [mounted |-> TRUE, isCameraOpen |-> FALSE, facingMode |-> "user",
   streamRef |-> 0, runs |-> <<>>, streams |-> <<>>]

(* streamRef.current.getTracks().forEach(track => track.stop()) *)
StopTracks(streams, ref) ==
  IF ref # 0 THEN [streams EXCEPT ![ref] = FALSE] ELSE streams

(* the cleanup of the effect's last run, lines 103-108 *)
CameraCleanup(cam) ==
  [cam EXCEPT !.runs = [r \in 1..Len(cam.runs) |-> [cam.runs[r] EXCEPT !.mounted = FALSE]],
              !.streams = StopTracks(@, cam.streamRef)]

(* the render with isCameraOpen = open and facingMode = facing: the cleanup
   of the last run, then initCamera up to its await *)
CameraEffect(cam, open, facing) ==
  LET cleaned == CameraCleanup(cam) IN
  IF open
    THEN [cleaned EXCEPT !.isCameraOpen = TRUE, !.facingMode = facing,
                         !.runs = Append(@, [mounted |-> TRUE, pending |-> TRUE])]
    ELSE [cleaned EXCEPT !.isCameraOpen = FALSE, !.facingMode = facing,
                         !.streamRef = 0]

OtherFacing(facing) == IF facing = "user" THEN "environment" ELSE "user"

(* openCamera, from the attachment menu *)
OpenCamera ==
  /\ userEmail # Null /\ camera.mounted /\ ~camera.isCameraOpen
  /\ Len(camera.runs) < MaxAcquisitions
  /\ camera' = CameraEffect(camera, TRUE, camera.facingMode)
  /\ UNCHANGED <<hookVars, voice>>

(* closeCamera, from the close button of the camera view (capturePhoto
   calls it too) *)
CloseCamera ==
  /\ camera.mounted /\ camera.isCameraOpen
  /\ camera' = CameraEffect(camera, FALSE, camera.facingMode)
  /\ UNCHANGED <<hookVars, voice>>

(* toggleCameraFacing, from the camera view *)
ToggleCameraFacing ==
  /\ camera.mounted /\ camera.isCameraOpen
  /\ Len(camera.runs) < MaxAcquisitions
  /\ camera' = CameraEffect(camera, TRUE, OtherFacing(camera.facingMode))
  /\ UNCHANGED <<hookVars, voice>>

(* getUserMedia resolves for run r: lines 82-87 *)
CameraGranted(r) ==
  /\ camera.runs[r].pending
  /\ camera' = [camera EXCEPT !.runs[r].pending = FALSE,
                              !.streams = Append(@, TRUE),
                              !.streamRef = IF camera.runs[r].mounted
                                              THEN Len(camera.streams) + 1 ELSE @]
  /\ UNCHANGED <<hookVars, voice>>

(* getUserMedia rejects for run r: lines 88-92, and the render that
   setIsCameraOpen(false) causes *)
CameraDenied(r) ==
  /\ camera.runs[r].pending
  /\ camera' = IF camera.runs[r].mounted
                 THEN CameraEffect([camera EXCEPT !.runs[r].pending = FALSE],
                                   FALSE, camera.facingMode)
                 ELSE [camera EXCEPT !.runs[r].pending = FALSE]
  /\ UNCHANGED <<hookVars, voice>>

(* App renders the login screen in the place of the chat: ChatInput unmounts *)
UnmountInput ==
  /\ camera.mounted
  /\ camera' = [CameraCleanup(camera) EXCEPT !.mounted = FALSE]
  /\ UNCHANGED <<hookVars, voice>>

----------------------------------------------------------------------------
(* ChatInput, the voice input: isRecording, isTranscribing, the text box,
   the MediaRecorder (recorder: "none", "recording" or "inactive"), whether
   the microphone's tracks are live, the size of the blob recorded (below
   the 1500 bytes of line 279 or not) and where the handlers are *)

NoVoice ==
  [isRecording |-> FALSE, isTranscribing |-> FALSE, text |-> "",
   recorder |-> "none", micLive |-> FALSE, blob |-> "none", pc |-> "idle",
   recordings |-> 0]

BlobSizes == {"small", "large"}

(* response.text of transcribeAudio *)
Transcriptions == {"", " ", "[[NO_SPEECH]]", "ok "}

(* prev.endsWith(' ') *)
EndsWithSpace(t) == Len(t) > 0 /\ SubSeq(t, Len(t), Len(t)) = " "

(* toggleRecording while not recording: startRecording up to its await.
   The microphone button is disabled while isLoading or isTranscribing *)
StartRecording ==
  /\ camera.mounted /\ userEmail # Null
  /\ ~isLoading /\ ~voice.isTranscribing /\ ~voice.isRecording
  /\ voice.pc = "idle" /\ voice.recordings < MaxRecordings
  /\ voice' = [voice EXCEPT !.pc = "getUserMedia"]
  /\ UNCHANGED <<hookVars, camera>>

(* getUserMedia({audio}) resolves: lines 262-288 *)
MicGranted ==
  /\ voice.pc = "getUserMedia"
  /\ voice' = [voice EXCEPT !.recorder = "recording", !.micLive = TRUE,
                            !.blob = "none", !.isRecording = TRUE,
                            !.pc = "recording", !.recordings = @ + 1]
  /\ UNCHANGED <<hookVars, camera>>

(* getUserMedia({audio}) rejects: lines 289-292 *)
MicDenied ==
  /\ voice.pc = "getUserMedia"
  /\ voice' = [voice EXCEPT !.pc = "idle", !.recordings = @ + 1]
  /\ UNCHANGED <<hookVars, camera>>

(* toggleRecording while recording: stopRecording; the recording made so far
   is of one of `sizes` *)
StopRecording(sizes) ==
  \E size \in sizes :
    /\ camera.mounted /\ ~isLoading /\ ~voice.isTranscribing
    /\ voice.isRecording /\ voice.recorder = "recording"
    /\ voice' = [voice EXCEPT !.recorder = "inactive", !.isRecording = FALSE,
                              !.isTranscribing = TRUE, !.blob = size,
                              !.pc = "onstop"]
    /\ UNCHANGED <<hookVars, camera>>

(* mediaRecorder.onstop, lines 272-285, up to the await of processAudio's
   request *)
OnStop ==
  /\ voice.pc = "onstop"
  /\ voice' = IF voice.blob = "small"
                THEN [voice EXCEPT !.micLive = FALSE, !.isRecording = FALSE,
                                   !.pc = "idle"]
                ELSE [voice EXCEPT !.micLive = FALSE, !.isTranscribing = TRUE,
                                   !.pc = "transcribeAudio"]
  /\ UNCHANGED <<hookVars, camera>>

(* transcribeAudio resolves: lines 307-317, then finally *)
TranscribeDone(responses) ==
  \E response \in responses :
    LET transcribedText == Trim(response) IN
    /\ voice.pc = "transcribeAudio"
    /\ voice' = [voice EXCEPT
                   !.text = IF transcribedText = "" \/ transcribedText = "[[NO_SPEECH]]"
                              THEN @
                              ELSE @ \o (IF @ # "" /\ ~EndsWithSpace(@) THEN " " ELSE "")
                                     \o transcribedText,
                   !.isTranscribing = FALSE,
                   !.pc = "idle"]
    /\ UNCHANGED <<hookVars, camera>>

(* transcribeAudio rejects: lines 318-322 *)
TranscribeFail ==
  /\ voice.pc = "transcribeAudio"
  /\ voice' = [voice EXCEPT !.isTranscribing = FALSE, !.pc = "idle"]
  /\ UNCHANGED <<hookVars, camera>>

----------------------------------------------------------------------------
(* Initial state: the hook mounted with userEmail = null *)

NoOps == [n |-> 0, last |-> "none", arg |-> Null, cur |-> Null]

Init ==
  /\ userEmail = Null
  /\ storage \in InitialStores
  /\ messages = <<>>
  /\ sessions = <<>>
  /\ currentSessionId = Null
  /\ isLoading = FALSE
  /\ currentModel = "gemini-3-flash-preview"
  /\ chatSessionRef = createChatSession("gemini-3-flash-preview", <<>>)
  /\ abortControllerRef = 0
  /\ turns = <<>>
  /\ now = FirstClock
  /\ crashed = FALSE
  /\ queued = NoQueue
  /\ ops = NoOps
  /\ camera = NoCamera
  /\ voice = NoVoice

Ready == ~crashed /\ ~queued.some

----------------------------------------------------------------------------
(* the operations on the session collection and the identity changes are
   counted, MaxOps of them at most; the last one is remembered, with its
   argument and the session that was current when it was made *)
Budget(op, arg) ==
  /\ ops.n < MaxOps
  /\ ops' = [n |-> ops.n + 1, last |-> op, arg |-> arg, cur |-> currentSessionId]

----------------------------------------------------------------------------
(* sendMessage up to its first await, called by ChatInput's handleSend *)

(* no exception was caught in the turn *)
NoFailure == [name |-> "", status |-> 0, code |-> 0, payload |-> ""]

startTurn(text, attachment, isImageGen, ref) ==
  [ botMsgId   |-> ToString(now + 1),
    text       |-> text,
    parts      |-> Parts(attachment, text),
    isImageGen |-> isImageGen,
    model      |-> currentModel,
    session    |-> IF currentSessionId = Null THEN ToString(now) ELSE currentSessionId,
    aborted    |-> FALSE,
    pc         |-> IF isImageGen THEN "image" ELSE "stream",
    prompt     |-> IF isImageGen THEN text ELSE "",
    tool       |-> FALSE,
    toolArg    |-> Null,
    caption    |-> Null,
    delivered  |-> <<>>,
    applied    |-> <<>>,
    onCtx      |-> ~isImageGen,
    ctxHistory |-> IF isImageGen THEN <<>> ELSE ref.history,
    shown      |-> History(messages),
    stopText   |-> Null,
    outcome    |-> "running",
    failure    |-> NoFailure,
    user       |-> userEmail ]

(* sendMessage creating a session whether or not one is current *)
sendMessageAlwaysCreating(text, attachment, isImageGen) ==
  LET userMessage == Message(ToString(now), SenderUser, text, attachment, FALSE, now)
      botMessage == Message(ToString(now + 1), SenderModel,
                            IF isImageGen THEN DrawingCaption ELSE "",
                            NoAttachment, FALSE, now)
      newSession == ChatSession(ToString(now), CreateTitle(text),
                                Append(messages, userMessage), now)
      ref == IF ~isImageGen /\ ~chatSessionRef.exists
               THEN createChatSession(currentModel, <<>>) ELSE chatSessionRef
  IN  /\ ~(IsBlank(text) /\ ~attachment.present)
      /\ abortControllerRef' = Len(turns) + 1
      /\ isLoading' = TRUE
      /\ Commit(messages \o <<userMessage, botMessage>>, <<newSession>> \o sessions,
                ToString(now), currentModel, ref,
                Append(turns, startTurn(text, attachment, isImageGen, ref)))
      /\ now' = now + SendGap
      /\ UNCHANGED <<userEmail, crashed, queued, ops, camera, voice>>

(* sendMessage making its request before it appends the placeholder: the
   turn is started with the user message alone in the live list *)
sendMessageRequestingFirst(text, attachment, isImageGen) ==
  LET userMessage == Message(ToString(now), SenderUser, text, attachment, FALSE, now)
      activeSessionId == IF currentSessionId = Null THEN ToString(now)
                         ELSE currentSessionId
      newSession == ChatSession(activeSessionId, CreateTitle(text),
                                Append(messages, userMessage), now)
      s == IF currentSessionId = Null THEN <<newSession>> \o sessions ELSE sessions
      ref == IF ~isImageGen /\ ~chatSessionRef.exists
               THEN createChatSession(currentModel, <<>>) ELSE chatSessionRef
  IN  /\ ~(IsBlank(text) /\ ~attachment.present)
      /\ abortControllerRef' = Len(turns) + 1
      /\ isLoading' = TRUE
      /\ Commit(Append(messages, userMessage), s, activeSessionId,
                currentModel, ref,
                Append(turns, startTurn(text, attachment, isImageGen, ref)))
      /\ now' = now + SendGap
      /\ UNCHANGED <<userEmail, crashed, queued, ops, camera, voice>>

sendMessage(text, attachment, isImageGen) ==
  LET userMessage == Message(ToString(now), SenderUser, text, attachment, FALSE, now)
      botMessage == Message(ToString(now + 1), SenderModel,
                            IF isImageGen THEN DrawingCaption ELSE "",
                            NoAttachment, FALSE, now)
      activeSessionId == IF currentSessionId = Null THEN ToString(now)
                         ELSE currentSessionId
      newSession == ChatSession(activeSessionId, CreateTitle(text),
                                Append(messages, userMessage), now)
      s == IF currentSessionId = Null THEN <<newSession>> \o sessions ELSE sessions
      ref == IF ~isImageGen /\ ~chatSessionRef.exists
               THEN createChatSession(currentModel, <<>>) ELSE chatSessionRef
  IN  /\ ~(IsBlank(text) /\ ~attachment.present)
      /\ abortControllerRef' = Len(turns) + 1
      /\ isLoading' = TRUE
      /\ Commit(messages \o <<userMessage, botMessage>>, s, activeSessionId,
                currentModel, ref,
                Append(turns, startTurn(text, attachment, isImageGen, ref)))
      /\ now' = now + SendGap
      /\ UNCHANGED <<userEmail, crashed, queued, ops, camera, voice>>

(* sendMessage setting the loading flag before it looks at its arguments *)
sendMessageRejectedLate(text, attachment) ==
  /\ IsBlank(text) /\ ~attachment.present
  /\ isLoading' = TRUE
  /\ UNCHANGED <<userEmail, storage, messages, sessions, currentSessionId,
                 currentModel, chatSessionRef, abortControllerRef, turns, now,
                 crashed, queued, camera, voice>>

(* sendMessage called with no text but whitespace and no attachment: the
   return of line 246 *)
sendMessageRejected(text, attachment) ==
  /\ IsBlank(text) /\ ~attachment.present
  /\ UNCHANGED <<userEmail, storage, messages, sessions, currentSessionId,
                 isLoading, currentModel, chatSessionRef, abortControllerRef,
                 turns, now, crashed, queued, camera, voice>>

(* the hook's sendMessage called with any arguments, whatever isLoading is;
   a call that is rejected is counted with the operations *)
SendMessageCall(inputs, maxTurns) ==
  \E in \in inputs :
    /\ Ready /\ userEmail # Null
    /\ Len(turns) < maxTurns
    /\ \/ Budget("sendMessage", in.text) /\ sendMessageRejected(in.text, in.attachment)
       \/ sendMessage(in.text, in.attachment, in.isImageGen)

(* ChatInput.handleSend: the send affordance *)
HandleSend(inputs, maxTurns) ==
  \E in \in inputs :
    /\ Ready /\ userEmail # Null
    /\ Len(turns) < maxTurns
    /\ (Trim(in.text) # "" \/ in.attachment.present) /\ ~isLoading
    /\ sendMessage(in.text, in.attachment, in.isImageGen)

----------------------------------------------------------------------------
(* The resumptions of sendMessage and handleImageGeneration *)

SetText(msgs, id, text) ==
  [i \in 1..Len(msgs) |-> IF msgs[i].id = id THEN [msgs[i] EXCEPT !.text = text]
                          ELSE msgs[i]]

SetImage(msgs, id, text, attachment) ==
  [i \in 1..Len(msgs) |->
     IF msgs[i].id = id
       THEN [msgs[i] EXCEPT !.text = text, !.attachment = attachment]
       ELSE msgs[i]]

SetError(msgs, id, text) ==
  [i \in 1..Len(msgs) |->
     IF msgs[i].id = id THEN [msgs[i] EXCEPT !.text = text, !.isError = TRUE]
     ELSE msgs[i]]

(* the updater putting the chunk's text in the place of the message's *)
AppendChunkReplacing(prev, id, chunkText) ==
  IF Last(prev).id = id
    THEN [prev EXCEPT ![Len(prev)] = [@ EXCEPT !.text = chunkText]]
    ELSE prev

(* the updater of lines 341-350 *)
AppendChunk(prev, id, chunkText) ==
  IF Last(prev).id = id
    THEN [prev EXCEPT ![Len(prev)] = [@ EXCEPT !.text = @ \o chunkText]]
    ELSE prev

Finish(t, outcome, trs) ==
  [trs EXCEPT ![t] = [@ EXCEPT !.pc = "done", !.outcome = outcome]]

(* the turn ends in a catch block, which caught `error` *)
Caught(t, outcome, error, trs) ==
  [trs EXCEPT ![t] = [@ EXCEPT !.pc = "done", !.outcome = outcome,
                               !.failure = error]]

(* a chunk without function call arrives while the signal is not raised *)
StreamChunk(t, texts) ==
  \E c \in texts :
    /\ Ready /\ turns[t].pc = "stream" /\ ~turns[t].aborted
    /\ Len(turns[t].delivered) < MaxChunks
    /\ IF c # "" /\ messages = <<>>
         THEN /\ crashed' = TRUE
              /\ UNCHANGED <<userEmail, storage, messages, sessions, currentSessionId,
                             isLoading, currentModel, chatSessionRef,
                             abortControllerRef, turns, now, queued, ops,
                             camera, voice>>
         ELSE /\ Commit(IF c # "" THEN AppendChunk(messages, turns[t].botMsgId, c)
                        ELSE messages,
                        sessions, currentSessionId, currentModel, chatSessionRef,
                        [turns EXCEPT ![t] =
                           [@ EXCEPT !.delivered = Append(@, c),
                                     !.applied =
                                        IF c # "" /\ Last(messages).id = turns[t].botMsgId
                                          THEN Append(@, c) ELSE @]])
              /\ UNCHANGED <<userEmail, isLoading, abortControllerRef, now, crashed,
                             queued, ops, camera, voice>>

(* the Chat records the exchange once its stream was read to the end *)
Recorded(chat, turn) ==
  [chat EXCEPT !.history =
     @ \o <<[role |-> "user", parts |-> turn.parts]>>
       \o (IF Concat(turn.delivered) # ""
             THEN <<[role |-> "model", parts |-> <<[text |-> Concat(turn.delivered)]>>]>>
             ELSE <<>>)]

(* the stream ends: the loop is left, the finally block runs *)
StreamEnd(t) ==
  /\ Ready /\ turns[t].pc = "stream" /\ ~turns[t].aborted
  /\ abortControllerRef' = FinallyRef(t)
  /\ isLoading' = FinallyLoading(t)
  /\ Commit(messages, sessions, currentSessionId, currentModel,
            IF turns[t].onCtx THEN Recorded(chatSessionRef, turns[t])
            ELSE chatSessionRef,
            Finish(t, "finalized", turns))
  /\ UNCHANGED <<userEmail, now, crashed, queued, ops, camera, voice>>

(* sendMessageStream or the stream throws: the catch block, then finally;
   `clock` holds the values Date.now() may return at line 368 *)
StreamFail(t, failures, clock) ==
  \E error \in failures, time \in clock :
    /\ Ready /\ turns[t].pc = "stream" /\ ~turns[t].aborted
    /\ abortControllerRef' = FinallyRef(t)
    /\ isLoading' = FinallyLoading(t)
    /\ IF error.name = "AbortError"
         THEN Commit(messages, sessions, currentSessionId, currentModel,
                     chatSessionRef, Caught(t, "aborted", error, turns))
         ELSE Commit(Append(messages,
                            Message(ToString(time), SenderModel,
                                    getFriendlyErrorMessage(error), NoAttachment,
                                    TRUE, time)),
                     sessions, currentSessionId, currentModel,
                     createChatSession(turns[t].model, <<>>),
                     Detach(Caught(t, "errored", error, turns)))
    /\ UNCHANGED <<userEmail, now, crashed, queued, ops, camera, voice>>

(* a chunk with a generate_image call arrives: lines 322-333 up to the await.
   Without args, line 327 throws inside the try block of sendMessage *)
StreamToolCall(t, calls) ==
  \E call \in calls :
    /\ Ready /\ turns[t].pc = "stream" /\ ~turns[t].aborted
    /\ IF call.args
         THEN /\ Commit(SetText(messages, turns[t].botMsgId, AutoImageCaption),
                        sessions, currentSessionId, currentModel, chatSessionRef,
                        [turns EXCEPT ![t] =
                           [@ EXCEPT !.pc = "image", !.tool = TRUE,
                                     !.toolArg = call.prompt,
                                     !.prompt = IF call.prompt # "" THEN call.prompt
                                                ELSE turns[t].text]])
              /\ UNCHANGED <<isLoading, abortControllerRef>>
         ELSE /\ abortControllerRef' = FinallyRef(t)
              /\ isLoading' = FinallyLoading(t)
              /\ Commit(Append(messages,
                               Message(ToString(now), SenderModel,
                                       getFriendlyErrorMessage(ArgsTypeError),
                                       NoAttachment, TRUE, now)),
                        sessions, currentSessionId, currentModel,
                        createChatSession(turns[t].model, <<>>),
                        Detach([Caught(t, "errored", ArgsTypeError, turns)
                                  EXCEPT ![t].tool = TRUE, ![t].toolArg = ""]))
    /\ UNCHANGED <<userEmail, now, crashed, queued, ops, camera, voice>>

(* handleImageGeneration throwing when the response holds no image: the
   catch block of sendMessage reports it *)
ImageDoneThrowing(t, responses) ==
  \E response \in responses :
    /\ Ready /\ turns[t].pc = "image" /\ ~turns[t].aborted
    /\ abortControllerRef' = FinallyRef(t)
    /\ isLoading' = FinallyLoading(t)
    /\ IF response.hasImage
         THEN Commit(SetImage(messages, turns[t].botMsgId,
                              IF response.text # "" THEN response.text
                              ELSE ImageDoneCaption,
                              GeneratedImage),
                     sessions, currentSessionId, currentModel, chatSessionRef,
                     [Finish(t, "image", turns) EXCEPT ![t].caption = response.text])
         ELSE Commit(Append(messages,
                            Message(ToString(now), SenderModel, GenericMessage,
                                    NoAttachment, TRUE, now)),
                     sessions, currentSessionId, currentModel,
                     createChatSession(turns[t].model, <<>>),
                     Detach([Finish(t, "noimage", turns)
                               EXCEPT ![t].caption = response.text]))
    /\ UNCHANGED <<userEmail, now, crashed, queued, ops, camera, voice>>

(* generateImage resolves: handleImageGeneration lines 195-235, then finally *)
ImageDone(t, responses) ==
  \E response \in responses :
    /\ Ready /\ turns[t].pc = "image" /\ ~turns[t].aborted
    /\ abortControllerRef' = FinallyRef(t)
    /\ isLoading' = FinallyLoading(t)
    /\ Commit(IF response.hasImage
                THEN SetImage(messages, turns[t].botMsgId,
                              IF response.text # "" THEN response.text
                              ELSE ImageDoneCaption,
                              GeneratedImage)
                ELSE SetError(messages, turns[t].botMsgId, ImageFailedCaption),
              sessions, currentSessionId, currentModel, chatSessionRef,
              [Finish(t, IF response.hasImage THEN "image" ELSE "noimage", turns)
                 EXCEPT ![t].caption = response.text])
    /\ UNCHANGED <<userEmail, now, crashed, queued, ops, camera, voice>>

(* generateImage rejects: handleImageGeneration lines 236-242, then finally *)
ImageFail(t, failures) ==
  \E error \in failures :
    /\ Ready /\ turns[t].pc = "image" /\ ~turns[t].aborted
    /\ abortControllerRef' = FinallyRef(t)
    /\ isLoading' = FinallyLoading(t)
    /\ Commit(SetError(messages, turns[t].botMsgId, getFriendlyErrorMessage(error)),
              sessions, currentSessionId, currentModel, chatSessionRef,
              Caught(t, "imagefailed", error, turns))
    /\ UNCHANGED <<userEmail, now, crashed, queued, ops, camera, voice>>

(* the catch block of sendMessage without the test of line 358 *)
AbortedExitReporting(t) ==
  /\ Ready /\ turns[t].pc # "done" /\ turns[t].aborted
  /\ abortControllerRef' = FinallyRef(t)
  /\ isLoading' = FinallyLoading(t)
  /\ Commit(Append(messages,
                   Message(ToString(now), SenderModel, GenericMessage, NoAttachment,
                           TRUE, now)),
            sessions, currentSessionId, currentModel,
            createChatSession(turns[t].model, <<>>),
            Detach(Finish(t, "errored", turns)))
  /\ UNCHANGED <<userEmail, now, crashed, queued, ops, camera, voice>>

(* any resumption of a turn whose signal is raised: the break of line 319,
   the returns of lines 195, 237 and 360; then finally *)
AbortedExit(t) ==
  /\ Ready /\ turns[t].pc # "done" /\ turns[t].aborted
  /\ abortControllerRef' = FinallyRef(t)
  /\ isLoading' = FinallyLoading(t)
  /\ turns' = Finish(t, "aborted", turns)
  /\ UNCHANGED <<userEmail, storage, messages, sessions, currentSessionId,
                 currentModel, chatSessionRef, now, crashed, queued, ops,
                 camera, voice>>

----------------------------------------------------------------------------
(* The operations the presentation layer calls (App.tsx renders them only
   while an identity is logged in) *)

(* stopGeneration, behind the stop button shown while isLoading *)
StopGeneration ==
  /\ Ready /\ userEmail # Null /\ isLoading
  /\ turns' = [t \in 1..Len(turns) |->
                 [turns[t] EXCEPT
                    !.aborted = @ \/ t = abortControllerRef,
                    !.stopText = IF turns[t].pc = "stream" /\ @ = Null
                                   THEN Concat(turns[t].applied) ELSE @]]
  /\ isLoading' = FALSE
  /\ UNCHANGED <<userEmail, storage, messages, sessions, currentSessionId,
                 currentModel, chatSessionRef, abortControllerRef, now, crashed,
                 queued, ops, camera, voice>>

(* startNewChat(shouldClearMessages = true) *)
StartNewChat ==
  /\ Ready /\ Budget("startNewChat", Null) /\ userEmail # Null
  /\ abortControllerRef' = 0
  /\ Commit(<<>>, sessions, Null, currentModel, NoChat, Detach(turns))
  /\ UNCHANGED <<userEmail, isLoading, now, crashed, queued, camera, voice>>

(* loadSession without chatSessionRef.current = null *)
LoadSessionKeepingChat ==
  \E i \in 1..Len(sessions) :
    /\ Ready /\ Budget("loadSession", sessions[i].id) /\ userEmail # Null
    /\ Commit(sessions[i].messages, sessions, sessions[i].id, currentModel,
              chatSessionRef, turns)
    /\ UNCHANGED <<userEmail, isLoading, abortControllerRef, now, crashed, queued,
                   camera, voice>>

(* loadSession(sessionId) for an entry of the history list *)
LoadSession ==
  \E i \in 1..Len(sessions) :
    /\ Ready /\ Budget("loadSession", sessions[i].id) /\ userEmail # Null
    /\ Commit(sessions[i].messages, sessions, sessions[i].id, currentModel, NoChat,
              Detach(turns))
    /\ UNCHANGED <<userEmail, isLoading, abortControllerRef, now, crashed, queued,
                   camera, voice>>

(* a loadSession that stamps the session it shows with the time of the call *)
loadSessionTouching(sessionId) ==
  LET i == FindIndex(sessions, sessionId) IN
  IF i # 0
    THEN /\ Commit(sessions[i].messages,
                   SortByUpdatedAt([sessions EXCEPT ![i].updatedAt = now]),
                   sessions[i].id, currentModel, NoChat, Detach(turns))
         /\ UNCHANGED <<userEmail, isLoading, abortControllerRef, now, crashed,
                        queued>>
    ELSE UNCHANGED <<userEmail, storage, messages, sessions, currentSessionId,
                     isLoading, currentModel, chatSessionRef, abortControllerRef,
                     turns, now, crashed, queued>>

(* loadSession(sessionId) for any id: sessions.find answers undefined for an
   id the collection does not hold, and nothing is set *)
loadSession(sessionId) ==
  LET i == FindIndex(sessions, sessionId) IN
  IF i # 0
    THEN /\ Commit(sessions[i].messages, sessions, sessions[i].id, currentModel,
                   NoChat, Detach(turns))
         /\ UNCHANGED <<userEmail, isLoading, abortControllerRef, now, crashed,
                        queued>>
    ELSE UNCHANGED <<userEmail, storage, messages, sessions, currentSessionId,
                     isLoading, currentModel, chatSessionRef, abortControllerRef,
                     turns, now, crashed, queued>>

(* loadSession called with the id of a session of the collection or with one
   of the ids `others` *)
LoadSessionCall(others) ==
  \E id \in {sessions[i].id : i \in 1..Len(sessions)} \cup others :
    /\ Ready /\ Budget("loadSession", id) /\ userEmail # Null
    /\ loadSession(id)
    /\ UNCHANGED <<camera, voice>>

Without(s, id) == SelectSeq(s, LAMBDA x : x.id # id)

(* deleteSession calling startNewChat whichever session is deleted *)
DeleteSessionResetting ==
  \E i \in 1..Len(sessions) :
    /\ Ready /\ Budget("deleteSession", sessions[i].id) /\ userEmail # Null
    /\ abortControllerRef' = 0
    /\ Commit(<<>>, Without(sessions, sessions[i].id), Null, currentModel,
              NoChat, Detach(turns))
    /\ UNCHANGED <<userEmail, isLoading, now, crashed, queued, camera, voice>>

(* deleteSession without its call of startNewChat *)
DeleteSessionOnly ==
  \E i \in 1..Len(sessions) :
    /\ Ready /\ Budget("deleteSession", sessions[i].id) /\ userEmail # Null
    /\ Commit(messages, Without(sessions, sessions[i].id), currentSessionId,
              currentModel, chatSessionRef, turns)
    /\ UNCHANGED <<userEmail, isLoading, abortControllerRef, now, crashed, queued,
                   camera, voice>>

(* deleteSession(sessionId, e) *)
DeleteSession ==
  \E i \in 1..Len(sessions) :
    /\ Ready /\ Budget("deleteSession", sessions[i].id) /\ userEmail # Null
    /\ IF sessions[i].id = currentSessionId
         THEN /\ abortControllerRef' = 0
              /\ Commit(<<>>, Without(sessions, sessions[i].id), Null, currentModel,
                        NoChat, Detach(turns))
         ELSE /\ abortControllerRef' = abortControllerRef
              /\ Commit(messages, Without(sessions, sessions[i].id), currentSessionId,
                        currentModel, chatSessionRef, turns)
    /\ UNCHANGED <<userEmail, isLoading, now, crashed, queued, camera, voice>>

(* clearAllSessions without window.confirm: it clears whatever the answer *)
ClearAllSessionsUnasked ==
  \E confirmed \in BOOLEAN :
    /\ Ready /\ Budget("clearAllSessions", IF confirmed THEN "yes" ELSE "no")
    /\ userEmail # Null /\ Len(sessions) > 0
    /\ abortControllerRef' = 0
    /\ Commit(<<>>, <<>>, Null, currentModel, NoChat, Detach(turns))
    /\ UNCHANGED <<userEmail, isLoading, now, crashed, queued, camera, voice>>

(* clearAllSessions: window.confirm answers yes or no *)
ClearAllSessions ==
  \E confirmed \in BOOLEAN :
    /\ Ready /\ Budget("clearAllSessions", IF confirmed THEN "yes" ELSE "no")
    /\ userEmail # Null /\ Len(sessions) > 0
    /\ IF confirmed
         THEN /\ abortControllerRef' = 0
              /\ Commit(<<>>, <<>>, Null, currentModel, NoChat, Detach(turns))
         ELSE UNCHANGED <<storage, messages, sessions, currentSessionId, currentModel,
                          chatSessionRef, abortControllerRef, turns>>
    /\ UNCHANGED <<userEmail, isLoading, now, crashed, queued, camera, voice>>

(* setCurrentModel from the model menu *)
SetCurrentModel ==
  \E mdl \in Models \ {currentModel} :
    /\ Ready /\ Budget("setCurrentModel", mdl) /\ userEmail # Null
    /\ Commit(messages, sessions, currentSessionId, mdl, chatSessionRef, turns)
    /\ UNCHANGED <<userEmail, isLoading, abortControllerRef, now, crashed, queued,
                   camera, voice>>

----------------------------------------------------------------------------
(* The userEmail prop changes: the render with the new prop and its effects.
   The load effect reads the store and queues its state updates; the persist
   effect, which runs after it with this render's sessions, writes them under
   the new identity's key. *)

LoadQueue(stored) ==
  IF stored.tag = "absent"
    THEN [some |-> TRUE, kind |-> "absent", setSessions |-> TRUE, sessions |-> <<>>]
  ELSE IF ParseThrows(stored)
    THEN [some |-> TRUE, kind |-> "malformed", setSessions |-> FALSE,
          sessions |-> <<>>]
  ELSE [some |-> TRUE, kind |-> "parsed", setSessions |-> TRUE,
        sessions |-> ParsedSessions(stored)]

IdentityChange(e) ==
  /\ Ready /\ Budget("userEmail", e) /\ e # userEmail
  /\ userEmail' = e
  /\ IF e # Null
       THEN /\ queued' = LoadQueue(storage[e])
            /\ chatSessionRef' = NoChat
            /\ abortControllerRef' = 0
            /\ turns' = Detach(turns)
            /\ storage' = [storage EXCEPT ![e] = Stringify(sessions)]
       ELSE /\ queued' = [some |-> TRUE, kind |-> "logout", setSessions |-> TRUE,
                         sessions |-> <<>>]
            /\ UNCHANGED <<chatSessionRef, abortControllerRef, turns, storage>>
  /\ UNCHANGED <<messages, sessions, currentSessionId, isLoading, currentModel, now,
                 crashed, camera, voice>>

(* handleLogin of App.tsx, reached from the login screen *)
Login == \E e \in Identities : userEmail = Null /\ IdentityChange(e)

(* handleLogout of App.tsx *)
Logout == userEmail # Null /\ IdentityChange(Null)

(* useChat(userEmail) re-rendered with another identity *)
SwitchIdentity == \E e \in Identities : userEmail # Null /\ IdentityChange(e)

(* the load effect without its calls of startNewChat(true) *)
ApplyQueuedKeepingChat ==
  /\ ~crashed /\ queued.some
  /\ queued' = NoQueue
  /\ sessions' = IF queued.setSessions THEN queued.sessions ELSE sessions
  /\ storage' = IF userEmail # Null /\ queued.setSessions
                  THEN [storage EXCEPT ![userEmail] = Stringify(queued.sessions)]
                  ELSE storage
  /\ UNCHANGED <<userEmail, messages, currentSessionId, isLoading, currentModel,
                 chatSessionRef, abortControllerRef, turns, now, crashed, ops,
                 camera, voice>>

(* the render the load effect's updates cause, and its effects *)
ApplyQueued ==
  /\ ~crashed /\ queued.some
  /\ queued' = NoQueue
  /\ messages' = <<>>
  /\ currentSessionId' = Null
  /\ sessions' = IF queued.setSessions THEN queued.sessions ELSE sessions
  /\ storage' = IF userEmail # Null /\ queued.setSessions
                  THEN [storage EXCEPT ![userEmail] = Stringify(queued.sessions)]
                  ELSE storage
  /\ IF currentSessionId # Null
       THEN /\ chatSessionRef' = createChatSession(currentModel, History(<<>>))
            /\ turns' = Detach(turns)
       ELSE UNCHANGED <<chatSessionRef, turns>>
  /\ UNCHANGED <<userEmail, isLoading, currentModel, abortControllerRef, now, crashed,
                 ops, camera, voice>>

----------------------------------------------------------------------------

(* the state after the hook mounted with a remembered identity, "a@kite",
   whose store holds the sessions `stored` *)
InitLoggedIn(stored) ==
  /\ userEmail = "a@kite"
  /\ storage = [e \in Identities |->
                  IF e = "a@kite" THEN Stringify(SortByUpdatedAt(stored)) ELSE Absent]
  /\ messages = <<>>
  /\ sessions = SortByUpdatedAt(stored)
  /\ currentSessionId = Null
  /\ isLoading = FALSE
  /\ currentModel = "gemini-3-flash-preview"
  /\ chatSessionRef = createChatSession("gemini-3-flash-preview", <<>>)
  /\ abortControllerRef = 0
  /\ turns = <<>>
  /\ now = FirstClock
  /\ crashed = FALSE
  /\ queued = NoQueue
  /\ ops = NoOps
  /\ camera = NoCamera
  /\ voice = NoVoice

(* the hook mounted with the remembered identity "a@kite", whose store holds
   the sessions `stored` in that order: the effects of the first render have
   run, the load effect has read the store and its updates are not rendered
   yet, the persist effect has written the empty collection of that render *)
InitMounting(stored) ==
  /\ userEmail = "a@kite"
  /\ storage = [e \in Identities |-> IF e = "a@kite" THEN Stringify(<<>>) ELSE Absent]
  /\ messages = <<>>
  /\ sessions = <<>>
  /\ currentSessionId = Null
  /\ isLoading = FALSE
  /\ currentModel = "gemini-3-flash-preview"
  /\ chatSessionRef = createChatSession("gemini-3-flash-preview", <<>>)
  /\ abortControllerRef = 0
  /\ turns = <<>>
  /\ now = FirstClock
  /\ crashed = FALSE
  /\ queued = LoadQueue(Stringify(stored))
  /\ ops = NoOps
  /\ camera = NoCamera
  /\ voice = NoVoice

----------------------------------------------------------------------------
(* Spec: one turn with every kind of input, chunk and outcome, interleaved
   with the session operations *)

InitStream == InitLoggedIn(<<StoredSession>>)

NextStream ==
  \/ HandleSend(SendInputs, OneTurn)
  \/ StopGeneration
  \/ \E t \in 1..Len(turns) :
       \/ StreamChunk(t, ChunkTexts)
       \/ StreamToolCall(t, ToolCalls)
       \/ StreamEnd(t)
       \/ StreamFail(t, Failures, {now})
       \/ ImageDone(t, ImageResponses)
       \/ ImageFail(t, Failures)
       \/ AbortedExit(t)
  \/ StartNewChat
  \/ LoadSession
  \/ DeleteSession
  \/ ClearAllSessions
  \/ SetCurrentModel

Spec == InitStream /\ [][NextStream]_vars

----------------------------------------------------------------------------
(* SpecTitle: first messages of every length around the title limit *)

LongText == "0123456789abcdefghijklmnopqrstuvwxyz"

TitleInputs ==
  { [text |-> txt, attachment |-> att, isImageGen |-> FALSE] :
      txt \in { "", " ", "Hello", Slice(LongText, TitleMax),
                Slice(LongText, TitleMax + 1), LongText },
      att \in { NoAttachment, UserImage } }

InitTitle == InitLoggedIn(<<StoredSession>>)

NextTitle ==
  \/ HandleSend(TitleInputs, OneTurn)
  \/ \E t \in 1..Len(turns) :
       \/ StreamChunk(t, {"Hi", " there"})
       \/ StreamEnd(t)
  \/ StartNewChat
  \/ LoadSession

SpecTitle == InitTitle /\ [][NextTitle]_vars

----------------------------------------------------------------------------
(* SpecTwoTurns: two turns, the second one started while the first may still
   be in flight *)

PlainInputs ==
  { [text |-> "Hello", attachment |-> NoAttachment, isImageGen |-> FALSE],
    [text |-> "Draw", attachment |-> NoAttachment, isImageGen |-> TRUE] }

InitTwoTurns == InitLoggedIn(<<>>)

NextTwoTurns ==
  \/ HandleSend(PlainInputs, MaxTurns)
  \/ StopGeneration
  \/ \E t \in 1..Len(turns) :
       \/ StreamChunk(t, {"x"})
       \/ StreamEnd(t)
       \/ StreamFail(t, {[name |-> "Error", status |-> 500, code |-> 0,
                          payload |-> "{status:500}"]}, {now})
       \/ ImageDone(t, {[hasImage |-> TRUE, text |-> ""]})
       \/ AbortedExit(t)
  \/ StartNewChat
  \/ LoadSession

SpecTwoTurns == InitTwoTurns /\ [][NextTwoTurns]_vars

----------------------------------------------------------------------------
(* SpecIdentity: the hook mounted logged out, the userEmail prop changing
   between null and the two identities, with one turn and the session list
   in use in between *)

NextIdentity ==
  \/ Login
  \/ Logout
  \/ SwitchIdentity
  \/ ApplyQueued
  \/ HandleSend({[text |-> "Hello", attachment |-> NoAttachment,
                  isImageGen |-> FALSE]}, OneTurn)
  \/ \E t \in 1..Len(turns) :
       \/ StreamChunk(t, {"x"})
       \/ StreamEnd(t)
       \/ StreamFail(t, {[name |-> "Error", status |-> 500, code |-> 0,
                          payload |-> "{status:500}"]}, {now})
  \/ StartNewChat
  \/ LoadSession

SpecIdentity == Init /\ [][NextIdentity]_vars

----------------------------------------------------------------------------
(* SpecSessions: the mount over a store of two sessions, the older one
   first, one turn that streams to its end, and FewOps operations of the
   session list *)

InitSessions == InitMounting(<<OlderSession, StoredSession>>)

NextSessions ==
  \/ ApplyQueued
  \/ HandleSend({[text |-> "Hello", attachment |-> NoAttachment,
                  isImageGen |-> FALSE]}, OneTurn)
  \/ \E t \in 1..Len(turns) :
       \/ StreamChunk(t, {"x"})
       \/ StreamEnd(t)
  \/ ops.n < FewOps /\ StartNewChat
  \/ ops.n < FewOps /\ LoadSession
  \/ ops.n < FewOps /\ DeleteSession
  \/ ops.n < FewOps /\ ClearAllSessions
  \/ ops.n < FewOps /\ SetCurrentModel

SpecSessions == InitSessions /\ [][NextSessions]_vars

----------------------------------------------------------------------------
(* SpecFailures: one turn, conversational or image, that may be stopped and
   may fail in every way, with FewOps new chats started meanwhile *)

InitFailures == InitLoggedIn(<<StoredSession>>)

NextFailures ==
  \/ HandleSend(PlainInputs, OneTurn)
  \/ StopGeneration
  \/ \E t \in 1..Len(turns) :
       \/ StreamChunk(t, {"x"})
       \/ StreamToolCall(t, {[args |-> TRUE, prompt |-> "cat"]})
       \/ StreamEnd(t)
       \/ StreamFail(t, FailureCases, {now})
       \/ ImageDone(t, ImageResponses)
       \/ ImageFail(t, Failures)
       \/ AbortedExit(t)
  \/ ops.n < FewOps /\ StartNewChat

SpecFailures == InitFailures /\ [][NextFailures]_vars

----------------------------------------------------------------------------
(* SpecSend: the hook's sendMessage called with every kind of arguments,
   blank ones among them, and one turn whose failure may come in the very
   millisecond of the send *)

CallInputs ==
  { [text |-> "", attachment |-> NoAttachment, isImageGen |-> FALSE],
    [text |-> " \t", attachment |-> NoAttachment, isImageGen |-> TRUE],
    [text |-> "Hello", attachment |-> NoAttachment, isImageGen |-> FALSE],
    [text |-> "Draw", attachment |-> NoAttachment, isImageGen |-> TRUE] }

(* the readings of the clock from the last send on *)
SinceLastSend == (now - SendGap)..now

InitSend == InitLoggedIn(<<StoredSession>>)

NextSend ==
  \/ SendMessageCall(CallInputs, OneTurn)
  \/ \E t \in 1..Len(turns) :
       \/ StreamChunk(t, {"x"})
       \/ StreamFail(t, {[name |-> "Error", status |-> 500, code |-> 0,
                          payload |-> "{status:500}"]}, SinceLastSend)
       \/ ImageDone(t, {[hasImage |-> TRUE, text |-> ""]})
  \/ ops.n < FewOps /\ LoadSession

SpecSend == InitSend /\ [][NextSend]_vars

----------------------------------------------------------------------------
(* SpecChunks: one conversational turn whose stream delivers chunks of two
   different texts and may deliver a generate_image call after them, with
   FewOps selections of a session meanwhile *)

InitChunks == InitLoggedIn(<<StoredSession>>)

NextChunks ==
  \/ HandleSend({[text |-> "Hello", attachment |-> NoAttachment,
                  isImageGen |-> FALSE]}, OneTurn)
  \/ \E t \in 1..Len(turns) :
       \/ StreamChunk(t, {"x", "y"})
       \/ StreamToolCall(t, {[args |-> TRUE, prompt |-> "cat"]})
       \/ StreamEnd(t)
  \/ ops.n < FewOps /\ LoadSession

SpecChunks == InitChunks /\ [][NextChunks]_vars

----------------------------------------------------------------------------
(* SpecHistory: the Initialize Chat effect run over stored conversations of
   every make-up: the store holds one session of MaxStored messages at
   most, each of them one the hook can have left there *)

(* what sendMessage accepts as a user message, and what a turn can leave as
   its assistant message: the placeholder, streamed text, whitespace, an
   image with its caption, an error *)
StoredShapes ==
  { shape \in
      { [sender |-> SenderUser, text |-> txt, attachment |-> att, isError |-> FALSE] :
          txt \in {"", " ", "Hi"}, att \in {NoAttachment, UserImage} } :
      ~IsBlank(shape.text) \/ shape.attachment.present }
  \cup
  { [sender |-> SenderModel, text |-> "", attachment |-> NoAttachment,
     isError |-> FALSE],
    [sender |-> SenderModel, text |-> " ", attachment |-> NoAttachment,
     isError |-> FALSE],
    [sender |-> SenderModel, text |-> "Yo", attachment |-> NoAttachment,
     isError |-> FALSE],
    [sender |-> SenderModel, text |-> ImageDoneCaption,
     attachment |-> GeneratedImage, isError |-> FALSE],
    [sender |-> SenderModel, text |-> GenericMessage, attachment |-> NoAttachment,
     isError |-> TRUE],
    [sender |-> SenderModel, text |-> ImageFailedCaption,
     attachment |-> NoAttachment, isError |-> TRUE] }

StoredLists ==
  UNION { [1..n -> StoredShapes] : n \in 1..MaxStored }

StoredConversation(shapes) ==
  ChatSession("1", "Hi",
              [i \in 1..Len(shapes) |->
                 Message(ToString(i), shapes[i].sender, shapes[i].text,
                         shapes[i].attachment, shapes[i].isError, 1)], 2)

InitHistory == \E shapes \in StoredLists : InitLoggedIn(<<StoredConversation(shapes)>>)

NextHistory ==
  \/ LoadSession
  \/ SetCurrentModel
  \/ StartNewChat

SpecHistory == InitHistory /\ [][NextHistory]_vars

----------------------------------------------------------------------------
(* SpecInput: the camera and the voice input of ChatInput, used by a logged
   in identity while the hook is idle; SpecInputFair adds that the events
   the browser and the backend owe do happen: a stopped recorder fires
   onstop, and transcribeAudio settles *)

InitInput == InitLoggedIn(<<StoredSession>>)

NextInput ==
  \/ OpenCamera
  \/ CloseCamera
  \/ ToggleCameraFacing
  \/ \E r \in 1..Len(camera.runs) :
       \/ CameraGranted(r)
       \/ CameraDenied(r)
  \/ UnmountInput
  \/ StartRecording
  \/ MicGranted
  \/ MicDenied
  \/ StopRecording(BlobSizes)
  \/ OnStop
  \/ TranscribeDone(Transcriptions)
  \/ TranscribeFail

SpecInput == InitInput /\ [][NextInput]_vars

SpecInputFair ==
  /\ InitInput /\ [][NextInput]_vars
  /\ WF_vars(OnStop)
  /\ WF_vars(TranscribeDone(Transcriptions) \/ TranscribeFail)

----------------------------------------------------------------------------
(* SpecStopped: turns sent through handleSend, stopped, and followed by
   newer turns while the stopped ones have not yet left sendMessage *)

InitStopped == InitLoggedIn(<<>>)

NextStopped ==
  \/ HandleSend(PlainInputs, MaxTurns)
  \/ StopGeneration
  \/ \E t \in 1..Len(turns) :
       \/ StreamChunk(t, {"x"})
       \/ StreamEnd(t)
       \/ ImageDone(t, {[hasImage |-> TRUE, text |-> ""]})
       \/ AbortedExit(t)

SpecStopped == InitStopped /\ [][NextStopped]_vars

----------------------------------------------------------------------------
(* SpecSelect: two stored sessions, one turn, and loadSession called with
   the ids of the collection and with an id no session has *)

UnknownIds == {"9"}

InitSelect == InitMounting(<<OlderSession, StoredSession>>)

NextSelect ==
  \/ ApplyQueued
  \/ HandleSend({[text |-> "Hello", attachment |-> NoAttachment,
                  isImageGen |-> FALSE]}, OneTurn)
  \/ \E t \in 1..Len(turns) :
       \/ StreamChunk(t, {"x"})
       \/ StreamEnd(t)
  \/ LoadSessionCall(UnknownIds)
  \/ ops.n < FewOps /\ StartNewChat
  \/ ops.n < FewOps /\ DeleteSession

SpecSelect == InitSelect /\ [][NextSelect]_vars

----------------------------------------------------------------------------
(* Properties *)

(* every copy of the assistant message of turn t: in the live list and in
   the stored messages of the sessions *)
BotCopies(t) ==
  { messages[i] : i \in { j \in 1..Len(messages) : messages[j].id = turns[t].botMsgId } }
  \cup UNION { { sessions[k].messages[i] :
                   i \in { j \in 1..Len(sessions[k].messages) :
                             sessions[k].messages[j].id = turns[t].botMsgId } } :
               k \in 1..Len(sessions) }

Turns == 1..Len(turns)

(* C1: when the stream of a conversational turn was read to its end without
   cancellation and without tool call, the text of the turn's assistant
   message is the concatenation, in order, of the texts of the chunks that
   were delivered *)
ChunksConcatenated ==
  \A t \in Turns :
    turns[t].outcome = "finalized" =>
      \A m \in BotCopies(t) : m.text = Concat(turns[t].delivered)

(* C2: once stopGeneration was invoked while a turn was streaming with the
   chunks of stopText applied, the assistant message keeps that text and no
   error flag, the turn appends no error message, and isLoading is false *)
StopKeepsPartialText ==
  \A t \in Turns :
    turns[t].stopText # Null =>
      /\ \A m \in BotCopies(t) : m.text = turns[t].stopText /\ ~m.isError
      /\ turns[t].outcome # "errored"
      /\ (t = Len(turns) => ~isLoading)

(* C3: when every started turn has completed or failed, isLoading is false *)
LoadingClearedWhenTurnsEnd ==
  (turns # <<>> /\ \A t \in Turns : turns[t].pc = "done") => ~isLoading

(* C4: a conversational turn is sent on a Chat whose history is the history
   of the messages displayed when it was sent *)
ContextCarriesShownHistory ==
  \A t \in Turns : ~turns[t].isImageGen => turns[t].ctxHistory = turns[t].shown

FirstUserText(session) == Head(UserMessages(session.messages)).text

(* C5: a session whose first user message has more than 30 characters is
   titled with the first 30 and the ellipsis; with 1 to 30 characters it is
   titled with the text *)
TitleDerivedFromFirstMessage ==
  \A k \in 1..Len(sessions) :
    UserMessages(sessions[k].messages) # <<>> =>
      LET text == FirstUserText(sessions[k]) IN
      /\ Len(text) > TitleMax => sessions[k].title = Slice(text, TitleMax) \o Ellipsis
      /\ (Len(text) >= 1 /\ Len(text) <= TitleMax) => sessions[k].title = text

(* C6: a session whose first user message has no text keeps the default
   title *)
EmptyFirstMessageKeepsDefaultTitle ==
  \A k \in 1..Len(sessions) :
    (UserMessages(sessions[k].messages) # <<>> /\ FirstUserText(sessions[k]) = "")
      => sessions[k].title = DefaultTitle

(* C7: when a session is current, is in the collection and the live list is
   not empty, its stored messages are the live list *)
StoredMessagesAreLiveList ==
  (Ready /\ currentSessionId # Null /\ FindIndex(sessions, currentSessionId) # 0
     /\ messages # <<>>)
    => sessions[FindIndex(sessions, currentSessionId)].messages = messages

(* C8: the render that applies what the load effect set after a change of
   identity (login, logout or a change from one identity to another) leaves
   the live message list empty and no current session id, whatever they were
   before: the loaded sessions are never in the collection beside the
   previous identity's messages *)
IdentityChangeResetsConversation ==
  [][ (queued.some /\ ~queued'.some)
        => (messages' = <<>> /\ currentSessionId' = Null) ]_vars

(* an identity changed with a conversation open, and its load, which found
   stored sessions, is about to be applied *)
LoadPendingOverOpenConversation ==
  /\ queued.some /\ queued.kind = "parsed" /\ queued.sessions # <<>>
  /\ userEmail # Null
  /\ messages # <<>> /\ currentSessionId # Null

(* the identity under which the session `id` was created: the stored
   sessions are their owners', a session made by a send is the sender's *)
HomeOf(id) ==
  IF id = StoredSession.id THEN "a@kite"
  ELSE IF id = OtherSession.id THEN "b@kite"
  ELSE LET made == { t \in Turns : turns[t].session = id }
       IN  IF made = {} THEN Null
           ELSE turns[CHOOSE t \in made : \A u \in made : t <= u].user

StoredIds(e) ==
  IF storage[e].tag = "absent" \/ ParseThrows(storage[e]) THEN {}
  ELSE { ParsedSessions(storage[e])[i].id : i \in 1..Len(ParsedSessions(storage[e])) }

(* C9: the item stored under an identity's key holds only sessions created
   under that identity, and while an identity is active the collection in
   memory holds only that identity's sessions *)
NoCrossIdentityLeakage ==
  /\ \A e \in Identities : \A id \in StoredIds(e) : HomeOf(id) = e
  /\ userEmail # Null => \A i \in 1..Len(sessions) : HomeOf(sessions[i].id) = userEmail

(* C10: the render that applies a load which found no stored item, or one
   that is not the JSON of an array of sessions with message arrays, raises
   nothing and leaves the collection empty, the live list empty and no
   current session id *)
FailedLoadLeavesEmptyState ==
  [][ (queued.some /\ queued.kind \in {"absent", "malformed"} /\ ~queued'.some)
        => /\ ~crashed'
           /\ sessions' = <<>>
           /\ messages' = <<>>
           /\ currentSessionId' = Null ]_vars

(* C11: a step that takes the current session out of the collection leaves
   no current session id, an empty live list and a backend context that is
   not the one of the deleted conversation: the reference holds a context
   without history and no turn in flight is on it *)
DeletingCurrentResets ==
  [][ (currentSessionId # Null /\ FindIndex(sessions, currentSessionId) # 0
         /\ FindIndex(sessions', currentSessionId) = 0)
        => /\ currentSessionId' = Null
           /\ messages' = <<>>
           /\ chatSessionRef'.history = <<>>
           /\ \A t \in 1..Len(turns') : ~turns'[t].onCtx ]_vars

(* deleteSession was last called on the session that was current, in which
   a turn had been sent *)
CurrentSessionDeleted ==
  /\ ops.last = "deleteSession" /\ ops.arg = ops.cur
  /\ \E t \in Turns : turns[t].session = ops.arg
  /\ FindIndex(sessions, ops.arg) = 0
  /\ currentSessionId = Null

(* C12: deleteSession called on a session that is not the current one takes
   exactly that session out of the collection, the others staying as they
   were and in their order, and leaves the live list, the current session
   id, the loading flag and the backend context as they were *)
DeletingOtherKeepsConversation ==
  [][ (ops'.n = ops.n + 1 /\ ops'.last = "deleteSession"
         /\ ops'.arg # currentSessionId)
        => /\ \E i \in 1..Len(sessions) :
                /\ sessions[i].id = ops'.arg
                /\ sessions' = SubSeq(sessions, 1, i - 1)
                                  \o SubSeq(sessions, i + 1, Len(sessions))
           /\ messages' = messages
           /\ currentSessionId' = currentSessionId
           /\ isLoading' = isLoading
           /\ chatSessionRef' = chatSessionRef
           /\ abortControllerRef' = abortControllerRef
           /\ turns' = turns ]_vars

(* deleteSession was last called on another session than the current one,
   whose conversation is still displayed beside the sessions that remain *)
OtherSessionDeleted ==
  /\ ops.last = "deleteSession" /\ ops.cur # Null /\ ops.arg # ops.cur
  /\ currentSessionId = ops.cur
  /\ messages # <<>>
  /\ FindIndex(sessions, ops.arg) = 0
  /\ Len(sessions) >= 2

(* the live lists and current session ids the sync step is run with: the
   ones of the state, and every stored list under every stored id *)
SyncLists == {messages} \cup { sessions[k].messages : k \in 1..Len(sessions) }
SyncIds == {currentSessionId} \cup { sessions[k].id : k \in 1..Len(sessions) }

(* C13: the sync step run a second time, later, with the same live list and
   the same current session id returns the collection the first run left:
   no session's updatedAt, title, messages or position changes *)
SyncIdempotent ==
  \A msgs \in SyncLists : \A sid \in SyncIds :
    LET once == SyncEffect(sessions, sid, msgs, now)
    IN  SyncEffect(once, sid, msgs, now + 1) = once

(* a first run of the sync step that writes: the live list has a chunk of
   text the stored copy of the current session has not *)
SyncWrites ==
  /\ currentSessionId # Null /\ FindIndex(sessions, currentSessionId) # 0
  /\ \E k \in 1..Len(sessions) :
       /\ sessions[k].id # currentSessionId
       /\ sessions[k].messages # <<>>
       /\ SyncEffect(sessions, currentSessionId, sessions[k].messages, now) # sessions
  /\ Len(messages) > 0 /\ Last(messages).text = "x"
  /\ sessions[FindIndex(sessions, currentSessionId)].messages = messages

Ids(s) == { s[k].id : k \in 1..Len(s) }

(* C14: an accepted send with no current session id adds one session, at
   the head of the collection, and makes it current; with a current session
   id it adds none; either way the live list grows by the user message and
   one assistant placeholder; a first "Hello" titles the session "Hello" *)
SendCreatesSessionLazily ==
  [][ Len(turns') = Len(turns) + 1
        => LET turn == Last(turns') IN
           /\ Len(messages') = Len(messages) + 2
           /\ SubSeq(messages', 1, Len(messages)) = messages
           /\ messages'[Len(messages) + 1].sender = SenderUser
           /\ messages'[Len(messages) + 1].text = turn.text
           /\ Last(messages').sender = SenderModel
           /\ Last(messages').id = turn.botMsgId
           /\ Last(messages').text = (IF turn.isImageGen THEN DrawingCaption ELSE "")
           /\ ~Last(messages').isError
           /\ IF currentSessionId = Null
                THEN /\ Len(sessions') = Len(sessions) + 1
                     /\ Tail(sessions') = sessions
                     /\ Head(sessions').id \notin Ids(sessions)
                     /\ currentSessionId' = Head(sessions').id
                     /\ currentSessionId' # Null
                     /\ (Len(turn.text) \in 1..TitleMax /\ messages = <<>>)
                          => Head(sessions').title = turn.text
                ELSE /\ Len(sessions') = Len(sessions)
                     /\ Ids(sessions') = Ids(sessions)
                     /\ currentSessionId' = currentSessionId ]_vars

(* "Hello" was sent from a fresh start beside stored sessions: its session
   leads the collection, is current and is titled "Hello", and the live list
   is the user message and the placeholder *)
HelloCreatedSession ==
  /\ Len(turns) = 1 /\ turns[1].text = "Hello" /\ turns[1].pc = "stream"
  /\ turns[1].delivered = <<>>
  /\ Len(sessions) = 3
  /\ Head(sessions).id = currentSessionId /\ Head(sessions).id = turns[1].session
  /\ Head(sessions).title = "Hello"
  /\ Len(messages) = 2 /\ messages[1].text = "Hello" /\ messages[2].text = ""

(* the step in which the stream of turn t, whose signal is not raised, throws *)
StreamThrows(t) ==
  /\ t <= Len(turns) /\ Len(turns') = Len(turns)
  /\ turns[t].pc = "stream" /\ ~turns[t].aborted
  /\ turns'[t].pc = "done" /\ turns'[t].failure # NoFailure

(* C15: when the stream of a turn whose signal is not raised throws, one
   model message with the error flag and the translated text is appended to
   the live list, the messages before it staying as they were, nothing is
   raised, and the reference holds a new context, which the failed turn is
   not on *)
FailureAppendsErrorMessage ==
  [][ \A t \in 1..Len(turns) :
        StreamThrows(t)
          => /\ Len(messages') = Len(messages) + 1
             /\ SubSeq(messages', 1, Len(messages)) = messages
             /\ Last(messages').sender = SenderModel
             /\ Last(messages').isError
             /\ Last(messages').text = getFriendlyErrorMessage(turns'[t].failure)
             /\ ~crashed'
             /\ chatSessionRef' = createChatSession(turns[t].model, <<>>)
             /\ ~turns'[t].onCtx ]_vars

(* the failures the claim calls quota exhaustion *)
QuotaClass(e) ==
  \/ e.status = 429
  \/ e.code = 429
  \/ \E word \in {"429", "RESOURCE_EXHAUSTED", "quota"} : Mentions(e.payload, word)

(* C16: when the stream of a turn whose signal is not raised throws, the
   message appended has the error flag and the quota message if the
   failure's status or code is 429 or its payload mentions 429,
   RESOURCE_EXHAUSTED or quota, and the generic message otherwise *)
FailureClassified ==
  [][ \A t \in 1..Len(turns) :
        StreamThrows(t)
          => /\ Len(messages') = Len(messages) + 1
             /\ Last(messages').isError
             /\ Last(messages').text = (IF QuotaClass(turns'[t].failure)
                                          THEN QuotaMessage ELSE GenericMessage) ]_vars

(* what a turn has done so far *)
Progress(turn) == <<turn.pc, turn.outcome, turn.tool, turn.delivered, turn.applied>>

(* C17: a step in which a turn whose signal is raised goes on (a chunk, the
   end or the failure of its stream, the result or the failure of its image
   request) leaves the live list as it was *)
CancelledTurnKeepsLiveList ==
  [][ \A t \in 1..Len(turns) :
        (turns[t].aborted /\ Len(turns') = Len(turns)
           /\ Progress(turns'[t]) # Progress(turns[t]))
          => messages' = messages ]_vars

(* a turn was stopped while its image request, made on a tool call, was
   pending; the request has returned and the caption is still the one the
   tool call set *)
StoppedDuringImageRequest ==
  \E t \in Turns :
    /\ turns[t].aborted /\ turns[t].tool /\ turns[t].pc = "done"
    /\ \E i \in 1..Len(messages) :
         messages[i].id = turns[t].botMsgId /\ messages[i].text = AutoImageCaption

(* the turns in flight whose signal is not raised *)
Running == { t \in Turns : turns[t].pc # "done" /\ ~turns[t].aborted }

(* C18: with sends made through ChatInput's handleSend only, at most one
   turn is in flight with its signal not raised *)
OneRunningTurn == Cardinality(Running) <= 1

(* C19: the collection in memory is sorted by updatedAt, newest first *)
SessionsSortedNewestFirst ==
  \A i \in 1..Len(sessions) : \A j \in i..Len(sessions) :
    sessions[i].updatedAt >= sessions[j].updatedAt

(* the stored sessions were loaded, and the older one, selected and written
   to by a turn, has moved to the head of the collection *)
OlderSessionMovedFirst ==
  /\ Len(sessions) = 2
  /\ Head(sessions).id = OlderSession.id
  /\ Head(sessions).updatedAt > StoredSession.updatedAt
  /\ sessions[2].id = StoredSession.id
  /\ currentSessionId = OlderSession.id

(* C20: loadSession called on a session of the collection makes it the
   current one, makes its stored messages the live list, and leaves in the
   reference no context made before the call: the reference is empty or
   holds a context made from the new live list, and no turn sent earlier is
   on the context it holds *)
SelectingReplacesConversation ==
  [][ (ops'.n = ops.n + 1 /\ ops'.last = "loadSession")
        => /\ FindIndex(sessions, ops'.arg) # 0
           /\ currentSessionId' = ops'.arg
           /\ messages' = sessions[FindIndex(sessions, ops'.arg)].messages
           /\ chatSessionRef' \in {NoChat,
                                   createChatSession(currentModel, History(messages'))}
           /\ \A t \in 1..Len(turns') : ~turns'[t].onCtx ]_vars

(* another session was selected while the turn of the previous conversation
   was streaming *)
SelectedDuringStream ==
  /\ ops.last = "loadSession" /\ ops.cur # Null /\ ops.cur # ops.arg
  /\ currentSessionId = ops.arg
  /\ Len(turns) = 1 /\ turns[1].session = ops.cur /\ turns[1].pc = "stream"
  /\ messages # <<>> /\ Last(messages).id # turns[1].botMsgId

(* C21: clearAllSessions, when the user confirms, leaves the collection
   empty, no current session id, the live list empty and no context made
   before the call in the reference; when the user declines, it leaves the
   collection, the live list, the current session id, the context, the
   store and the turns as they were *)
ClearingOnlyWhenConfirmed ==
  [][ (ops'.n = ops.n + 1 /\ ops'.last = "clearAllSessions")
        => IF ops'.arg = "yes"
             THEN /\ sessions' = <<>>
                  /\ currentSessionId' = Null
                  /\ messages' = <<>>
                  /\ chatSessionRef' \in {NoChat,
                                          createChatSession(currentModel, <<>>)}
                  /\ \A t \in 1..Len(turns') : ~turns'[t].onCtx
             ELSE /\ sessions' = sessions
                  /\ messages' = messages
                  /\ currentSessionId' = currentSessionId
                  /\ chatSessionRef' = chatSessionRef
                  /\ abortControllerRef' = abortControllerRef
                  /\ storage' = storage
                  /\ turns' = turns ]_vars

(* the clearing was confirmed while a turn was streaming in the current
   session, with stored sessions beside it: nothing of them is left, in
   memory or in the store *)
ClearingConfirmed ==
  /\ ops.last = "clearAllSessions" /\ ops.arg = "yes" /\ ops.cur # Null
  /\ \E t \in Turns : turns[t].session = ops.cur /\ turns[t].pc = "stream"
  /\ sessions = <<>> /\ messages = <<>> /\ currentSessionId = Null
  /\ storage["a@kite"] = Stringify(<<>>)

(* C22: sendMessage called with a text that is empty or whitespace only and
   with no attachment changes nothing: the live list, the collection, the
   loading flag, the current session id, the store and both references are
   as they were, and no turn is started *)
BlankSendRejected ==
  [][ (ops'.n = ops.n + 1 /\ ops'.last = "sendMessage")
        => /\ IsBlank(ops'.arg)
           /\ messages' = messages
           /\ sessions' = sessions
           /\ isLoading' = isLoading
           /\ currentSessionId' = currentSessionId
           /\ abortControllerRef' = abortControllerRef
           /\ chatSessionRef' = chatSessionRef
           /\ storage' = storage
           /\ turns' = turns ]_vars

(* whitespace was sent, and rejected, from a fresh start: nothing is
   displayed, no session was added, nothing is loading *)
WhitespaceRejected ==
  /\ ops.last = "sendMessage" /\ ops.arg = " \t"
  /\ turns = <<>> /\ messages = <<>> /\ ~isLoading
  /\ currentSessionId = Null /\ abortControllerRef = 0
  /\ sessions = <<StoredSession>>

(* C23: the step in which a chunk with a generate_image call reaches a
   streaming turn puts the turn on the image path, with the call's prompt,
   or the text that was sent when the call has none, and sets the text of
   the turn's assistant message to the working caption, the rest of the
   live list staying as it was; neither that chunk nor a later one adds
   text to the message *)
ToolCallSwitchesToImagePath ==
  [][ \A t \in 1..Len(turns) :
        /\ (~turns[t].tool /\ turns'[t].tool)
             => /\ turns'[t].pc = "image"
                /\ turns'[t].prompt = (IF turns'[t].toolArg # ""
                                         THEN turns'[t].toolArg ELSE turns[t].text)
                /\ Len(messages') = Len(messages)
                /\ \A i \in 1..Len(messages) :
                     messages'[i] = IF messages[i].id = turns[t].botMsgId
                                      THEN [messages[i] EXCEPT !.text = AutoImageCaption]
                                      ELSE messages[i]
        /\ turns'[t].tool
             => /\ turns'[t].delivered = turns[t].delivered
                /\ turns'[t].applied = turns[t].applied ]_vars

(* C24: the step in which the image request of a turn whose signal is not
   raised returns, in requested mode or after a tool call, changes the
   turn's assistant message in place and nothing else of the live list:
   with image data the message gets the image and the response's caption,
   or the default one, and no error flag; without, it gets the error flag
   and the could-not-generate caption; no message is added or removed,
   nothing is raised and the backend context stays *)
ImageResultAppliedInPlace ==
  [][ \A t \in 1..Len(turns) :
        (turns[t].pc = "image" /\ ~turns[t].aborted
           /\ turns'[t].outcome \in {"image", "noimage"})
          => /\ Len(messages') = Len(messages)
             /\ \A i \in 1..Len(messages) :
                  IF messages[i].id # turns[t].botMsgId
                    THEN messages'[i] = messages[i]
                  ELSE IF turns'[t].outcome = "image"
                    THEN /\ messages'[i] =
                              [messages[i] EXCEPT
                                 !.attachment = GeneratedImage,
                                 !.text = IF turns'[t].caption # ""
                                            THEN turns'[t].caption
                                            ELSE ImageDoneCaption]
                         /\ ~messages'[i].isError
                    ELSE messages'[i] =
                           [messages[i] EXCEPT !.text = ImageFailedCaption,
                                               !.isError = TRUE]
             /\ ~crashed'
             /\ chatSessionRef' = chatSessionRef ]_vars

(* an image request made on a tool call returned without image data: the
   assistant message of the turn is flagged, with the caption, and is still
   the last of the two messages *)
ToolImageRequestReturnedEmpty ==
  \E t \in Turns :
    /\ turns[t].tool /\ turns[t].outcome = "noimage" /\ ~turns[t].aborted
    /\ Len(messages) = 2
    /\ messages[2].id = turns[t].botMsgId
    /\ messages[2].isError /\ messages[2].text = ImageFailedCaption
    /\ ~messages[2].attachment.present

IsPrefix(a, b) == Len(a) <= Len(b) /\ SubSeq(b, 1, Len(a)) = a

(* C25: in every step taken while a turn is streaming, the text its
   assistant message had in the live list is a prefix of the text it has
   afterwards, unless the message is then an error *)
StreamingTextOnlyGrows ==
  [][ \A t \in 1..Len(turns) :
        turns[t].pc = "stream"
          => \A i \in 1..Len(messages) : \A j \in 1..Len(messages') :
               (messages[i].id = turns[t].botMsgId
                  /\ messages'[j].id = turns[t].botMsgId)
                 => \/ IsPrefix(messages[i].text, messages'[j].text)
                    \/ messages'[j].isError ]_vars

(* C25, amended: in every step taken while a turn is streaming, the text its
   assistant message had in the live list is a prefix of the text it has
   afterwards, unless the message is then an error or the step is the one
   in which a generate_image call arrives, which leaves the working caption
   as the text *)
StreamingTextGrowsUntilReplaced ==
  [][ \A t \in 1..Len(turns) :
        turns[t].pc = "stream"
          => \A i \in 1..Len(messages) : \A j \in 1..Len(messages') :
               (messages[i].id = turns[t].botMsgId
                  /\ messages'[j].id = turns[t].botMsgId)
                 => \/ IsPrefix(messages[i].text, messages'[j].text)
                    \/ messages'[j].isError
                    \/ /\ ~turns[t].tool /\ turns'[t].tool
                       /\ messages'[j].text = AutoImageCaption ]_vars

(* two chunks of different texts were appended, one after the other, and
   then a generate_image call put the working caption in their place *)
CaptionReplacedStreamedText ==
  \E t \in Turns :
    /\ turns[t].tool /\ turns[t].pc = "image"
    /\ turns[t].applied = <<"x", "y">>
    /\ \E i \in 1..Len(messages) :
         messages[i].id = turns[t].botMsgId /\ messages[i].text = AutoImageCaption

(* C26: the step of an accepted send, which leaves the turn's request to
   the backend pending (the stream to open, or the image to generate), has
   appended to the live list the user message and, after it, the assistant
   placeholder, whose text is empty, or the working caption in image mode *)
PlaceholderPrecedesRequest ==
  [][ Len(turns') = Len(turns) + 1
        => LET turn == Last(turns') IN
           /\ turn.pc = (IF turn.isImageGen THEN "image" ELSE "stream")
           /\ turn.outcome = "running" /\ turn.delivered = <<>>
           /\ messages' =
                messages \o
                << [id |-> ToString(now), sender |-> SenderUser, text |-> turn.text,
                    attachment |-> messages'[Len(messages) + 1].attachment,
                    isError |-> FALSE, timestamp |-> now],
                   [id |-> turn.botMsgId, sender |-> SenderModel,
                    text |-> IF turn.isImageGen THEN DrawingCaption ELSE "",
                    attachment |-> NoAttachment, isError |-> FALSE,
                    timestamp |-> now] >>
           /\ Parts(messages'[Len(messages) + 1].attachment, turn.text) = turn.parts
     ]_vars

(* an image was asked for in a selected session: the request is pending and
   the live list ends with the user message and the working caption *)
ImageRequestPendingBehindCaption ==
  /\ Len(turns) = 1 /\ turns[1].isImageGen /\ turns[1].pc = "image"
  /\ Len(messages) = 4
  /\ messages[3].sender = SenderUser /\ messages[3].text = "Draw"
  /\ messages[4].id = turns[1].botMsgId /\ messages[4].text = DrawingCaption

(* C27: a step taken while no identity is active, before and after it,
   writes nothing to the store; and while an identity is active and no
   update of the load effect is waiting for its render, the item stored
   under the identity's key is the JSON of the collection in memory *)
PersistenceFollowsIdentity ==
  /\ [][ (userEmail = Null /\ userEmail' = Null) => storage' = storage ]_vars
  /\ [](( Ready /\ userEmail # Null ) => storage[userEmail] = Stringify(sessions))

(* logged out after a conversation: the collection in memory was emptied,
   the failure of the turn still in flight then changed the live list, and
   the store still holds the session of that conversation *)
LoggedOutStoreKept ==
  /\ userEmail = Null /\ ~queued.some
  /\ sessions = <<>> /\ messages # <<>>
  /\ \E t \in Turns :
       /\ turns[t].user = "a@kite" /\ turns[t].outcome = "errored"
       /\ turns[t].session \in StoredIds("a@kite")

(* the positions of the live list whose message is not an error and has a
   character that is not whitespace, or an attachment *)
KeptPositions ==
  { i \in 1..Len(messages) :
      /\ ~messages[i].isError
      /\ \/ \E k \in 1..Len(messages[i].text) :
              SubSeq(messages[i].text, k, k) \notin Whitespace
         \/ messages[i].attachment.present }

(* the place in the history of the message at a kept position *)
PlaceOf(i) == Cardinality({ j \in KeptPositions : j <= i })

(* C28: the history of the context the Initialize Chat effect makes has one
   entry for each message of the live list that is not an error and has
   non-blank text or an attachment, in the order of the list; the entry's
   role is user or model as the sender is, its parts are the attachment, if
   any, and then the text, if not empty; no entry is without parts *)
HistoryIsRetainedMessages ==
  chatSessionRef.exists
    => LET history == chatSessionRef.history IN
       /\ Len(history) = Cardinality(KeptPositions)
       /\ \A i \in KeptPositions :
            LET entry == history[PlaceOf(i)]
                m == messages[i]
                n == Len(entry.parts)
            IN  /\ entry.role = (IF m.sender = SenderUser THEN "user" ELSE "model")
                /\ n = (IF m.attachment.present THEN 1 ELSE 0)
                        + (IF m.text # "" THEN 1 ELSE 0)
                /\ m.attachment.present
                     => entry.parts[1] =
                          [inlineData |-> [mimeType |-> m.attachment.mimeType,
                                           data |-> m.attachment.data]]
                /\ m.text # "" => entry.parts[n] = [text |-> m.text]
       /\ \A k \in 1..Len(history) : history[k].parts # <<>>

(* the effect ran over a stored conversation of an image sent with a blank
   caption and an error: the history is the one entry of the image and the
   blank text *)
HistoryDroppedError ==
  /\ chatSessionRef.exists /\ currentSessionId = "1"
  /\ Len(messages) = 2
  /\ messages[1].text = " " /\ messages[1].attachment.present
  /\ messages[2].isError
  /\ Len(chatSessionRef.history) = 1
  /\ Len(chatSessionRef.history[1].parts) = 2

(* C29: the messages of the live list have pairwise distinct ids *)
MessageIdsDistinct ==
  \A i \in 1..Len(messages) : \A j \in 1..Len(messages) :
    i # j => messages[i].id # messages[j].id

(* C30: in every step, a session whose title is not the default one and
   that stays in the collection keeps its title *)
TitleSetOnce ==
  [][ \A i \in 1..Len(sessions) : \A j \in 1..Len(sessions') :
        (sessions[i].id = sessions'[j].id /\ sessions[i].title # DefaultTitle)
          => sessions'[j].title = sessions[i].title ]_vars

(* the stored session titled "Old" was selected and "Hello" was sent in it:
   the sync effect wrote the new messages and left the title *)
TitleKeptAfterSecondQuestion ==
  \E k \in 1..Len(sessions) :
    /\ sessions[k].id = OlderSession.id /\ currentSessionId = OlderSession.id
    /\ Len(sessions[k].messages) = 4
    /\ sessions[k].messages[3].text = "Hello"
    /\ sessions[k].messages[4].text = "x"
    /\ sessions[k].updatedAt > OlderSession.updatedAt
    /\ sessions[k].title = OlderSession.title

(* C31: once the camera is closed, or the input component unmounted, no
   stream that was acquired has live tracks *)
CameraStreamsReleased ==
  (~camera.isCameraOpen \/ ~camera.mounted)
    => \A k \in 1..Len(camera.streams) : ~camera.streams[k]

(* C32: a step in which a turn goes on (a chunk, a tool call, the end or the
   failure of its stream, the result or the failure of its image request)
   while the session it was started in is not the current one leaves the
   live list as it was, and leaves every other session of the collection
   as it was *)
TurnStaysInItsConversation ==
  [][ \A t \in 1..Len(turns) :
        (Len(turns') = Len(turns) /\ Progress(turns'[t]) # Progress(turns[t])
           /\ currentSessionId # turns[t].session)
          => /\ messages' = messages
             /\ \A k \in 1..Len(sessions) :
                  sessions[k].id # turns[t].session
                    => \E j \in 1..Len(sessions') : sessions'[j] = sessions[k] ]_vars

(* ChatBubble's test of the 'thinking' state: a model message with no text,
   no attachment and no error flag *)
isThinking(m) ==
  m.sender # SenderUser /\ m.text = "" /\ ~m.attachment.present /\ ~m.isError

(* C33: whenever the loading flag is false, no message of the live list is
   rendered in the 'thinking' state *)
NothingThinkingWhenIdle ==
  ~isLoading => \A i \in 1..Len(messages) : ~isThinking(messages[i])

(* C34: the abort-controller reference designates every turn in flight whose
   signal is not raised, so that a stop request raises that turn's signal *)
StopReachesRunningTurn ==
  \A t \in Running : abortControllerRef = t

(* C35: a step in which a turn leaves sendMessage while the abort-controller
   reference designates another controller changes neither the loading flag
   nor the reference; only the turn whose controller is the active one
   clears the flag and the reference; and the flag is true whenever the
   turn the reference designates is in flight with its signal not raised *)
StaleCleanupKeepsLoading ==
  /\ [][ \A t \in 1..Len(turns) :
          (Len(turns') = Len(turns) /\ turns[t].pc # "done"
             /\ turns'[t].pc = "done")
            => IF abortControllerRef = t
                 THEN ~isLoading' /\ abortControllerRef' = 0
                 ELSE isLoading' = isLoading
                      /\ abortControllerRef' = abortControllerRef ]_vars
  /\ [](\A u \in Running : abortControllerRef = u => isLoading)

(* a stopped turn has left sendMessage after a newer turn was started: the
   newer turn is in flight, its controller is the active one and the
   loading flag is still true *)
StoppedTurnEndedUnderNewerTurn ==
  /\ Len(turns) = 2
  /\ turns[1].aborted /\ turns[1].outcome = "aborted" /\ turns[1].pc = "done"
  /\ turns[2].pc # "done" /\ ~turns[2].aborted
  /\ abortControllerRef = 2 /\ isLoading

(* C36: a call of loadSession leaves the collection as it was, order,
   titles, messages and updatedAt included, and leaves the store as it was;
   called with an id no session of the collection has, it leaves the whole
   state of the hook as it was *)
SelectingKeepsCollection ==
  [][ (ops'.n = ops.n + 1 /\ ops'.last = "loadSession")
        => /\ sessions' = sessions
           /\ storage' = storage
           /\ FindIndex(sessions, ops'.arg) = 0
                => UNCHANGED <<userEmail, messages, currentSessionId, isLoading,
                               currentModel, chatSessionRef, abortControllerRef,
                               turns, now, crashed, queued>> ]_vars

(* the older of two sessions was selected and is shown, and is still the
   second of the collection with the updatedAt it had *)
OlderSessionViewedInPlace ==
  /\ ops.last = "loadSession" /\ ops.arg = OlderSession.id
  /\ currentSessionId = OlderSession.id
  /\ Len(sessions) = 2 /\ sessions[2] = OlderSession
  /\ messages = OlderSession.messages

(* C37: once a voice recording is stopped, the transcribing flag eventually
   returns to false *)
TranscribingEnds ==
  (voice.pc = "onstop") ~> ~voice.isTranscribing

====
